---- MODULE Spec2Model ----
(***************************************************************************)
(* A model of jsonx (src/_core/jsonx.py): path-based accessors and         *)
(* mutators over one JSON file.                                            *)
(*                                                                         *)
(* The file is modelled as its text, a sequence of lexical tokens          *)
(* (punctuation, scalars, newline+indentation, single spaces).  json.load  *)
(* is a parser over that text and json.dump a serializer that writes the   *)
(* text chunk by chunk, so that a round trip through the file is computed  *)
(* and a failed serialization leaves the chunks written so far.            *)
(*                                                                         *)
(* Python values are records [kind, n, s, keys, vals]:                     *)
(*   null/bool/int/float/str   scalars (float n stands for n + 0.5)        *)
(*   list, tuple               vals are the items                          *)
(*   dict                      keys[i] maps to vals[i], insertion order    *)
(*   set                       a value json.dump cannot serialize          *)
(***************************************************************************)
EXTENDS Integers, Sequences, FiniteSets, TLC

VARIABLES exists, file, pre, last, nops

vars == <<exists, file, pre, last, nops>>

\* ---------------------------------------------------------------- bounds
MaxOps == 2
MaxPathLen == 2

indentLevel == 4

KeyNames == {"a", "b"}

\* ---------------------------------------------------------------- values
Node(kind, n, s, keys, vals) ==
    [kind |-> kind, n |-> n, s |-> s, keys |-> keys, vals |-> vals]

PNone == Node("null", 0, "", <<>>, <<>>)
PBool(b) == Node("bool", IF b THEN 1 ELSE 0, "", <<>>, <<>>)
PInt(n) == Node("int", n, "", <<>>, <<>>)
PFloat(n) == Node("float", n, "", <<>>, <<>>)
PStr(s) == Node("str", 0, s, <<>>, <<>>)
PList(vals) == Node("list", 0, "", <<>>, vals)
PTuple(vals) == Node("tuple", 0, "", <<>>, vals)
PDict(keys, vals) == Node("dict", 0, "", keys, vals)
PSet == Node("set", 0, "", <<>>, <<>>)
NoValue == Node("absent", 0, "", <<>>, <<>>)

\* ---------------------------------------------------------------- text
Tok(t, s, n) == [t |-> t, s |-> s, n |-> n]
LBrace == Tok("{", "", 0)
RBrace == Tok("}", "", 0)
LBrack == Tok("[", "", 0)
RBrack == Tok("]", "", 0)
Comma == Tok(",", "", 0)
Colon == Tok(":", "", 0)
Space == Tok("sp", "", 1)
NL(k) == Tok("nl", "", k)
TStr(s) == Tok("str", s, 0)
TInt(n) == Tok("int", "", n)
TFloat(n) == Tok("float", "", n)
TNull == Tok("null", "", 0)
TTrue == Tok("true", "", 0)
TFalse == Tok("false", "", 0)

IsWhitespace(t) == t.t \in {"sp", "nl"}

\* ---------------------------------------------------------------- classifier
IsJSONProperty(rawData) ==
    rawData.kind \in {"null", "float", "int", "list", "bool", "str"}

IsJSONObject(rawData) == rawData.kind = "dict"

\* object.keys(): only a dict has the attribute
HasKeys(object) == object.kind = "dict"

KeyIndex(object, key) ==
    CHOOSE i \in 1..Len(object.keys) : object.keys[i] = key

ContainsKey(object, key) ==
    [err |-> IF HasKeys(object) THEN "none" ELSE "AttributeError",
     val |-> HasKeys(object)
             /\ \E i \in 1..Len(object.keys) : object.keys[i] = key]

\* object[key]
Item(object, key) == object.vals[KeyIndex(object, key)]

\* object[key] = value : in place when the key exists, appended otherwise
Assign(object, key, value) ==
    IF \E i \in 1..Len(object.keys) : object.keys[i] = key
    THEN [object EXCEPT !.vals[KeyIndex(object, key)] = value]
    ELSE [object EXCEPT !.keys = Append(@, key), !.vals = Append(@, value)]

\* ---------------------------------------------------------------- json.dump
\* The encoder yields the text chunk by chunk; toks are the chunks written
\* before it finished (ok) or met a value it cannot serialize (~ok).
RECURSIVE Encode(_, _, _), EncodeItems(_, _, _, _), EncodeMembers(_, _, _, _)

Encode(o, ind, width) ==
    CASE o.kind = "null" -> [ok |-> TRUE, toks |-> <<TNull>>]
      [] o.kind = "bool" ->
            [ok |-> TRUE, toks |-> <<IF o.n = 1 THEN TTrue ELSE TFalse>>]
      [] o.kind = "int" -> [ok |-> TRUE, toks |-> <<TInt(o.n)>>]
      [] o.kind = "float" -> [ok |-> TRUE, toks |-> <<TFloat(o.n)>>]
      [] o.kind = "str" -> [ok |-> TRUE, toks |-> <<TStr(o.s)>>]
      [] o.kind \in {"list", "tuple"} ->
            IF Len(o.vals) = 0
            THEN [ok |-> TRUE, toks |-> <<LBrack, RBrack>>]
            ELSE LET body == EncodeItems(o.vals, 1, ind + width, width)
                 IN  IF body.ok
                     THEN [ok |-> TRUE,
                           toks |-> <<LBrack>> \o body.toks
                                    \o <<NL(ind), RBrack>>]
                     ELSE [ok |-> FALSE, toks |-> <<LBrack>> \o body.toks]
      [] o.kind = "dict" ->
            IF Len(o.keys) = 0
            THEN [ok |-> TRUE, toks |-> <<LBrace, RBrace>>]
            ELSE LET body == EncodeMembers(o, 1, ind + width, width)
                 IN  IF body.ok
                     THEN [ok |-> TRUE,
                           toks |-> <<LBrace>> \o body.toks
                                    \o <<NL(ind), RBrace>>]
                     ELSE [ok |-> FALSE, toks |-> <<LBrace>> \o body.toks]
      [] OTHER -> [ok |-> FALSE, toks |-> <<>>]

EncodeItems(vals, i, ind, width) ==
    IF i > Len(vals)
    THEN [ok |-> TRUE, toks |-> <<>>]
    ELSE LET sep == IF i = 1 THEN <<NL(ind)>> ELSE <<Comma, NL(ind)>>
             e == Encode(vals[i], ind, width)
             rest == EncodeItems(vals, i + 1, ind, width)
         IN  IF ~e.ok
             THEN [ok |-> FALSE, toks |-> sep \o e.toks]
             ELSE [ok |-> rest.ok, toks |-> sep \o e.toks \o rest.toks]

EncodeMembers(d, i, ind, width) ==
    IF i > Len(d.keys)
    THEN [ok |-> TRUE, toks |-> <<>>]
    ELSE LET sep == IF i = 1 THEN <<NL(ind)>> ELSE <<Comma, NL(ind)>>
             head == sep \o <<TStr(d.keys[i]), Colon, Space>>
             e == Encode(d.vals[i], ind, width)
             rest == EncodeMembers(d, i + 1, ind, width)
         IN  IF ~e.ok
             THEN [ok |-> FALSE, toks |-> head \o e.toks]
             ELSE [ok |-> rest.ok, toks |-> head \o e.toks \o rest.toks]

dump(obj, indent) == Encode(obj, 0, indent)

\* ---------------------------------------------------------------- json.load
\* Whitespace between tokens is insignificant; the rest is parsed by
\* recursive descent.  A result is [ok, val, next].
Significant(text) == SelectSeq(text, LAMBDA t : ~IsWhitespace(t))

ParseFail == [ok |-> FALSE, val |-> NoValue, next |-> 0]
ParseOk(v, next) == [ok |-> TRUE, val |-> v, next |-> next]

RECURSIVE ParseValue(_, _), ParseElements(_, _, _), ParseMembers(_, _, _)

ParseValue(toks, i) ==
    IF i > Len(toks)
    THEN ParseFail
    ELSE LET t == toks[i]
         IN  CASE t.t = "null" -> ParseOk(PNone, i + 1)
               [] t.t = "true" -> ParseOk(PBool(TRUE), i + 1)
               [] t.t = "false" -> ParseOk(PBool(FALSE), i + 1)
               [] t.t = "int" -> ParseOk(PInt(t.n), i + 1)
               [] t.t = "float" -> ParseOk(PFloat(t.n), i + 1)
               [] t.t = "str" -> ParseOk(PStr(t.s), i + 1)
               [] t.t = "[" ->
                     IF i + 1 <= Len(toks) /\ toks[i + 1].t = "]"
                     THEN ParseOk(PList(<<>>), i + 2)
                     ELSE ParseElements(toks, i + 1, <<>>)
               [] t.t = "{" ->
                     IF i + 1 <= Len(toks) /\ toks[i + 1].t = "}"
                     THEN ParseOk(PDict(<<>>, <<>>), i + 2)
                     ELSE ParseMembers(toks, i + 1, PDict(<<>>, <<>>))
               [] OTHER -> ParseFail

ParseElements(toks, i, acc) ==
    LET v == ParseValue(toks, i)
    IN  IF ~v.ok \/ v.next > Len(toks)
        THEN ParseFail
        ELSE IF toks[v.next].t = ","
        THEN ParseElements(toks, v.next + 1, Append(acc, v.val))
        ELSE IF toks[v.next].t = "]"
        THEN ParseOk(PList(Append(acc, v.val)), v.next + 1)
        ELSE ParseFail

ParseMembers(toks, i, d) ==
    IF i + 1 > Len(toks) \/ toks[i].t # "str" \/ toks[i + 1].t # ":"
    THEN ParseFail
    ELSE LET v == ParseValue(toks, i + 2)
         IN  IF ~v.ok \/ v.next > Len(toks)
             THEN ParseFail
             ELSE IF toks[v.next].t = ","
             THEN ParseMembers(toks, v.next + 1, Assign(d, toks[i].s, v.val))
             ELSE IF toks[v.next].t = "}"
             THEN ParseOk(Assign(d, toks[i].s, v.val), v.next + 1)
             ELSE ParseFail

\* load(fp): the whole text must be one JSON value
load(text) ==
    LET toks == Significant(text)
        r == ParseValue(toks, 1)
    IN  IF r.ok /\ r.next = Len(toks) + 1
        THEN [ok |-> TRUE, val |-> r.val]
        ELSE [ok |-> FALSE, val |-> NoValue]

\* ---------------------------------------------------------------- outcomes
\* What a call leaves behind: the exception raised (or "none"), the value
\* returned, the arguments of a key error, and the text of the file.
Return(v, text) ==
    [err |-> "none", ret |-> v, wrongKey |-> "", allKeys |-> <<>>,
     foundKeys |-> <<>>, file |-> text]

Raise(e, text) ==
    [err |-> e, ret |-> NoValue, wrongKey |-> "", allKeys |-> <<>>,
     foundKeys |-> <<>>, file |-> text]

RaiseKey(e, key, allKeysOfObject, foundKeys, text) ==
    [err |-> e, ret |-> NoValue, wrongKey |-> key,
     allKeys |-> allKeysOfObject, foundKeys |-> foundKeys, file |-> text]

\* ---------------------------------------------------------------- file I/O
readJSONFile(ex, text) ==
    IF ~ex
    THEN Raise("FileNotFoundError", text)
    ELSE LET r == load(text)
         IN  IF r.ok THEN Return(r.val, text)
             ELSE Raise("JSONDecodeError", text)

\* Mutant: the file is opened with mode "a", the text is kept and the
\* document appended
writeJSONFileAppend(ex, text, data) ==
    IF ~ex
    THEN Raise("FileNotFoundError", text)
    ELSE LET e == dump(data, indentLevel)
         IN  IF e.ok THEN Return(PNone, text \o e.toks)
             ELSE Raise("TypeError", text \o e.toks)

\* open(mode = "w") truncates, then dump writes chunk by chunk
writeJSONFile(ex, text, data) ==
    IF ~ex
    THEN Raise("FileNotFoundError", text)
    ELSE LET e == dump(data, indentLevel)
         IN  IF e.ok THEN Return(PNone, e.toks)
             ELSE Raise("TypeError", e.toks)

\* ---------------------------------------------------------------- resolution
\* Mutant: the return is inside the loop, so one key is looked up
GetValueLoopReturnsEarly(rawData, keys, i, currentObject, text) ==
    IF i > Len(keys)
    THEN Return(currentObject, text)
    ELSE LET c == ContainsKey(currentObject, keys[i])
         IN  IF c.err # "none"
             THEN Raise(c.err, text)
             ELSE IF ~c.val
             THEN RaiseKey("JSONKeyNotFoundError", keys[i], rawData.keys,
                           SubSeq(keys, 1, i - 1), text)
             ELSE Return(Item(currentObject, keys[i]), text)

RECURSIVE GetValueLoop(_, _, _, _, _)
GetValueLoop(rawData, keys, i, currentObject, text) ==
    IF i > Len(keys)
    THEN Return(currentObject, text)
    ELSE LET c == ContainsKey(currentObject, keys[i])
         IN  IF c.err # "none"
             THEN Raise(c.err, text)
             ELSE IF ~c.val
             THEN RaiseKey("JSONKeyNotFoundError", keys[i], rawData.keys,
                           SubSeq(keys, 1, i - 1), text)
             ELSE GetValueLoop(rawData, keys, i + 1,
                               Item(currentObject, keys[i]), text)

GetValueOfKeys(rawData, keys, text) ==
    GetValueLoop(rawData, keys, 1, rawData, text)

\* Mutant: the assignment is made to rawData, not to parentObject
AssignAtRoot(rawData, path, key, value) == Assign(rawData, key, value)

\* parentObject[key] = value, where parentObject is the node of rawData
\* that path resolves to (the assignment mutates rawData in place)
RECURSIVE AssignAt(_, _, _, _)
AssignAt(rawData, path, key, value) ==
    IF Len(path) = 0
    THEN Assign(rawData, key, value)
    ELSE [rawData EXCEPT
            !.vals[KeyIndex(rawData, path[1])] =
                AssignAt(@, Tail(path), key, value)]

\* keys[:-1] and keys[-1]
Front(keys) == IF Len(keys) = 0 THEN <<>> ELSE SubSeq(keys, 1, Len(keys) - 1)
Last(keys) == keys[Len(keys)]

\* ---------------------------------------------------------------- operations
getProperty(ex, text, keys) ==
    LET rawData == readJSONFile(ex, text)
        property == GetValueOfKeys(rawData.ret, keys, text)
    IN  IF rawData.err # "none" THEN rawData
        ELSE IF property.err # "none" THEN property
        ELSE IF IsJSONObject(property.ret)
        THEN Raise("NotAPropertyError", text)
        ELSE Return(property.ret, text)

setProperty(ex, text, keys, value) ==
    LET rawData == readJSONFile(ex, text)
        parentObject == GetValueOfKeys(rawData.ret, Front(keys), text)
        c == ContainsKey(parentObject.ret, Last(keys))
    IN  IF rawData.err # "none" THEN rawData
        ELSE IF parentObject.err # "none" THEN parentObject
        ELSE IF Len(keys) = 0 THEN Raise("IndexError", text)
        ELSE IF c.err # "none" THEN Raise(c.err, text)
        ELSE IF ~c.val
        THEN RaiseKey("JSONKeyNotFoundError", Last(keys),
                      parentObject.ret.keys, Front(keys), text)
        ELSE IF IsJSONObject(Item(parentObject.ret, Last(keys)))
        THEN Raise("NotAPropertyError", text)
        ELSE writeJSONFile(ex, text,
                 AssignAt(rawData.ret, Front(keys), Last(keys), value))

\* Mutant: the value is checked before the key
addPropertyValueFirst(ex, text, keys, newKey, value) ==
    LET rawData == readJSONFile(ex, text)
        parentObject == GetValueOfKeys(rawData.ret, keys, text)
        c == ContainsKey(parentObject.ret, newKey)
    IN  IF rawData.err # "none" THEN rawData
        ELSE IF parentObject.err # "none" THEN parentObject
        ELSE IF ~IsJSONProperty(value) THEN Raise("TypeError", text)
        ELSE IF c.err # "none" THEN Raise(c.err, text)
        ELSE IF c.val
        THEN RaiseKey("JSONKeyAlreadyExists", newKey,
                      parentObject.ret.keys, keys, text)
        ELSE writeJSONFile(ex, text,
                 AssignAt(rawData.ret, keys, newKey, value))

addProperty(ex, text, keys, newKey, value) ==
    LET rawData == readJSONFile(ex, text)
        parentObject == GetValueOfKeys(rawData.ret, keys, text)
        c == ContainsKey(parentObject.ret, newKey)
    IN  IF rawData.err # "none" THEN rawData
        ELSE IF parentObject.err # "none" THEN parentObject
        ELSE IF c.err # "none" THEN Raise(c.err, text)
        ELSE IF c.val
        THEN RaiseKey("JSONKeyAlreadyExists", newKey,
                      parentObject.ret.keys, keys, text)
        ELSE IF ~IsJSONProperty(value) THEN Raise("TypeError", text)
        ELSE writeJSONFile(ex, text,
                 AssignAt(rawData.ret, keys, newKey, value))

containsProperty(ex, text, keys) ==
    LET rawData == readJSONFile(ex, text)
        value == GetValueOfKeys(rawData.ret, keys, text)
    IN  IF rawData.err # "none" THEN rawData
        ELSE IF value.err = "JSONKeyNotFoundError"
        THEN Return(PBool(FALSE), text)
        ELSE IF value.err # "none" THEN value
        ELSE Return(PBool(IsJSONProperty(value.ret)), text)

getObject(ex, text, keys) ==
    LET rawData == readJSONFile(ex, text)
        object == GetValueOfKeys(rawData.ret, keys, text)
    IN  IF rawData.err # "none" THEN rawData
        ELSE IF object.err # "none" THEN object
        ELSE IF IsJSONProperty(object.ret)
        THEN Raise("NotAObjectError", text)
        ELSE Return(object.ret, text)

\* Mutant: the category of the current value is not checked
setObjectUnchecked(ex, text, keys, object) ==
    LET rawData == readJSONFile(ex, text)
        parentObject == GetValueOfKeys(rawData.ret, Front(keys), text)
        c == ContainsKey(parentObject.ret, Last(keys))
    IN  IF rawData.err # "none" THEN rawData
        ELSE IF parentObject.err # "none" THEN parentObject
        ELSE IF Len(keys) = 0 THEN Raise("IndexError", text)
        ELSE IF c.err # "none" THEN Raise(c.err, text)
        ELSE IF ~c.val
        THEN RaiseKey("JSONKeyNotFoundError", Last(keys),
                      parentObject.ret.keys, Front(keys), text)
        ELSE writeJSONFile(ex, text,
                 AssignAt(rawData.ret, Front(keys), Last(keys), object))

setObject(ex, text, keys, object) ==
    LET rawData == readJSONFile(ex, text)
        parentObject == GetValueOfKeys(rawData.ret, Front(keys), text)
        c == ContainsKey(parentObject.ret, Last(keys))
    IN  IF rawData.err # "none" THEN rawData
        ELSE IF parentObject.err # "none" THEN parentObject
        ELSE IF Len(keys) = 0 THEN Raise("IndexError", text)
        ELSE IF c.err # "none" THEN Raise(c.err, text)
        ELSE IF ~c.val
        THEN RaiseKey("JSONKeyNotFoundError", Last(keys),
                      parentObject.ret.keys, Front(keys), text)
        ELSE IF IsJSONProperty(Item(parentObject.ret, Last(keys)))
        THEN Raise("NotAObjectError", text)
        ELSE writeJSONFile(ex, text,
                 AssignAt(rawData.ret, Front(keys), Last(keys), object))

addObject(ex, text, keys, newKey, object) ==
    LET rawData == readJSONFile(ex, text)
        parentObject == GetValueOfKeys(rawData.ret, keys, text)
        c == ContainsKey(parentObject.ret, newKey)
    IN  IF rawData.err # "none" THEN rawData
        ELSE IF parentObject.err # "none" THEN parentObject
        ELSE IF c.err # "none" THEN Raise(c.err, text)
        ELSE IF c.val
        THEN RaiseKey("JSONKeyAlreadyExists", newKey,
                      parentObject.ret.keys, keys, text)
        ELSE IF ~IsJSONObject(object) THEN Raise("TypeError", text)
        ELSE writeJSONFile(ex, text,
                 AssignAt(rawData.ret, keys, newKey, object))

containsObject(ex, text, keys) ==
    LET rawData == readJSONFile(ex, text)
        value == GetValueOfKeys(rawData.ret, keys, text)
    IN  IF rawData.err # "none" THEN rawData
        ELSE IF value.err = "JSONKeyNotFoundError"
        THEN Return(PBool(FALSE), text)
        ELSE IF value.err # "none" THEN value
        ELSE Return(PBool(IsJSONObject(value.ret)), text)

\* open(file, "r") fails on a missing file before anything is read
isFormatCorrect(ex, text) ==
    LET rawData == readJSONFile(ex, text)
    IN  IF ~ex THEN Raise("FileNotFoundError", text)
        ELSE IF rawData.err = "JSONDecodeError"
        THEN Return(PBool(FALSE), text)
        ELSE IF rawData.err # "none" THEN rawData
        ELSE Return(PBool(TRUE), text)

indentJSONFile(ex, text) ==
    LET rawData == readJSONFile(ex, text)
    IN  IF rawData.err # "none" THEN rawData
        ELSE writeJSONFile(ex, text, rawData.ret)

\* ---------------------------------------------------------------- inputs
Paths == UNION {[1..n -> KeyNames] : n \in 0..MaxPathLen}

\* Values a caller passes: 2, ["x"], {"b": 2}, (1,), {1} (a set, which json
\* cannot serialize), [{1}]
Values ==
    {PInt(2),
     PList(<<PStr("x")>>),
     PDict(<<"b">>, <<PInt(2)>>),
     PTuple(<<PInt(1)>>),
     PSet,
     PList(<<PSet>>)}

\* {"a": {"b": 1}}
DocScenario == PDict(<<"a">>, <<PDict(<<"b">>, <<PInt(1)>>)>>)

\* {"b": {"b": [1, "x"], "a": {"b": null}}, "a": "x"}
DocNested ==
    PDict(<<"b", "a">>,
          <<PDict(<<"b", "a">>,
                  <<PList(<<PInt(1), PStr("x")>>),
                    PDict(<<"b">>, <<PNone>>)>>),
            PStr("x")>>)

\* Texts a file can hold before the first call: a document indented by 2,
\* one indented by 4, {"a":true, "b":2.5, "a":false} on one line (a key
\* repeated), a document whose root is an array, and a trailing comma.
InitTexts ==
    {dump(DocScenario, 2).toks,
     dump(DocNested, indentLevel).toks,
     <<LBrace, TStr("a"), Colon, TTrue, Comma, Space,
       TStr("b"), Colon, TFloat(2), Comma, Space,
       TStr("a"), Colon, TFalse, RBrace>>,
     <<LBrack, TInt(1), RBrack, NL(0)>>,
     <<LBrace, TStr("a"), Colon, Space, TInt(1), Comma, RBrace>>}

NoCall ==
    [op |-> "init", keys |-> <<>>, newKey |-> "", value |-> NoValue,
     err |-> "none", ret |-> NoValue, wrongKey |-> "", allKeys |-> <<>>,
     foundKeys |-> <<>>]

Init ==
    /\ \/ exists = TRUE /\ file \in InitTexts
       \/ exists = FALSE /\ file = <<>>
    /\ pre = file
    /\ last = NoCall
    /\ nops = 0

\* One call by the caller, made when no call is pending: the outcome is
\* recorded, the file holds what the call left there, pre what it held
\* before.
Call(op, keys, newKey, value, out) ==
    /\ last = NoCall
    /\ nops < MaxOps
    /\ nops' = nops + 1
    /\ pre' = file
    /\ file' = out.file
    /\ last' = [op |-> op, keys |-> keys, newKey |-> newKey,
                value |-> value, err |-> out.err, ret |-> out.ret,
                wrongKey |-> out.wrongKey, allKeys |-> out.allKeys,
                foundKeys |-> out.foundKeys]
    /\ UNCHANGED exists

CallGetProperty ==
    \E keys \in Paths :
        Call("getProperty", keys, "", NoValue, getProperty(exists, file, keys))

CallSetProperty ==
    \E keys \in Paths, value \in Values :
        Call("setProperty", keys, "", value,
             setProperty(exists, file, keys, value))

CallAddProperty ==
    \E keys \in Paths, newKey \in KeyNames, value \in Values :
        Call("addProperty", keys, newKey, value,
             addProperty(exists, file, keys, newKey, value))

CallContainsProperty ==
    \E keys \in Paths :
        Call("containsProperty", keys, "", NoValue,
             containsProperty(exists, file, keys))

CallGetObject ==
    \E keys \in Paths :
        Call("getObject", keys, "", NoValue, getObject(exists, file, keys))

CallSetObject ==
    \E keys \in Paths, object \in Values :
        Call("setObject", keys, "", object,
             setObject(exists, file, keys, object))

CallAddObject ==
    \E keys \in Paths, newKey \in KeyNames, object \in Values :
        Call("addObject", keys, newKey, object,
             addObject(exists, file, keys, newKey, object))

CallContainsObject ==
    \E keys \in Paths :
        Call("containsObject", keys, "", NoValue,
             containsObject(exists, file, keys))

CallIsFormatCorrect ==
    Call("isFormatCorrect", <<>>, "", NoValue, isFormatCorrect(exists, file))

CallIndentJSONFile ==
    Call("indentJSONFile", <<>>, "", NoValue, indentJSONFile(exists, file))

\* The caller takes the outcome of the call and is free to call again.
Resume ==
    /\ last # NoCall
    /\ last' = NoCall
    /\ pre' = file
    /\ UNCHANGED <<exists, file, nops>>

Next ==
    \/ CallGetProperty
    \/ CallSetProperty
    \/ CallAddProperty
    \/ CallContainsProperty
    \/ CallGetObject
    \/ CallSetObject
    \/ CallAddObject
    \/ CallContainsObject
    \/ CallIsFormatCorrect
    \/ CallIndentJSONFile
    \/ Resume

Spec == Init /\ [][Next]_vars

TypeOK ==
    /\ exists \in BOOLEAN
    /\ nops \in 0..MaxOps
    /\ last.op \in {"init", "getProperty", "setProperty", "addProperty",
                    "containsProperty", "getObject", "setObject",
                    "addObject", "containsObject", "isFormatCorrect",
                    "indentJSONFile"}
    /\ last.err \in {"none", "FileNotFoundError", "JSONDecodeError",
                     "JSONKeyNotFoundError", "JSONKeyAlreadyExists",
                     "NotAPropertyError", "NotAObjectError", "TypeError",
                     "AttributeError", "IndexError"}

\* ======================================================================
\* Properties
\* ======================================================================
\* The stored document before and after the last call
Before == load(pre)
After == load(file)

\* The two categories of the data model
IsObjectNode(n) == n.kind = "dict"
IsPropertyNode(n) == n.kind \in {"null", "bool", "int", "float", "str", "list"}

HasKey(n, key) == IsObjectNode(n) /\ \E i \in 1..Len(n.keys) : n.keys[i] = key

\* The node a path resolves to by successive key lookups into Objects,
\* NoValue when it does not resolve
RECURSIVE NodeAt(_, _)
NodeAt(n, path) ==
    IF Len(path) = 0 THEN n
    ELSE IF HasKey(n, Head(path))
    THEN NodeAt(n.vals[CHOOSE i \in 1..Len(n.keys) : n.keys[i] = Head(path)],
                Tail(path))
    ELSE NoValue

Resolves(n, path) == NodeAt(n, path) # NoValue

\* The document without the key at path
RECURSIVE Without(_, _, _)
Without(n, path, key) ==
    IF Len(path) = 0
    THEN LET i == CHOOSE j \in 1..Len(n.keys) : n.keys[j] = key
         IN  [n EXCEPT
                !.keys = SubSeq(@, 1, i - 1) \o SubSeq(@, i + 1, Len(@)),
                !.vals = SubSeq(@, 1, i - 1) \o SubSeq(@, i + 1, Len(@))]
    ELSE [n EXCEPT
            !.vals[CHOOSE j \in 1..Len(n.keys) : n.keys[j] = Head(path)] =
                Without(@, Tail(path), key)]

\* The length of the longest prefix of path that resolves
RECURSIVE Consumed(_, _, _)
Consumed(n, path, i) ==
    IF i < Len(path) /\ Resolves(n, SubSeq(path, 1, i + 1))
    THEN Consumed(n, path, i + 1)
    ELSE i

Called == exists /\ Before.ok /\ last # NoCall

\* C1: a path that resolves to a Property is returned by getProperty and
\* found by containsProperty; a path that resolves to an Object is returned
\* by getObject and found by containsObject (the empty path included).
C1_GetReturnsResolvedNode ==
    Called =>
        LET n == NodeAt(Before.val, last.keys)
        IN  /\ (last.op = "getProperty" /\ IsPropertyNode(n))
                => (last.err = "none" /\ last.ret = n)
            /\ (last.op = "containsProperty" /\ IsPropertyNode(n))
                => (last.err = "none" /\ last.ret = PBool(TRUE))
            /\ (last.op = "getObject" /\ IsObjectNode(n))
                => (last.err = "none" /\ last.ret = n)
            /\ (last.op = "containsObject" /\ IsObjectNode(n))
                => (last.err = "none" /\ last.ret = PBool(TRUE))

C1_Witness ==
    /\ Called
    /\ last.op = "getProperty"
    /\ Len(last.keys) = 2
    /\ last.err = "none"
    /\ last.ret.kind = "list"

\* C2: in get/set/add of a Property or an Object, a path that does not
\* resolve (a key absent from an Object, or a key looked up in a Property)
\* fails with KeyNotFound and with nothing else.
C2_ResolutionFailsWithKeyNotFound ==
    (/\ Called
     /\ last.op \in {"getProperty", "getObject", "setProperty", "setObject",
                     "addProperty", "addObject"}
     /\ ~Resolves(Before.val, last.keys))
        => last.err = "JSONKeyNotFoundError"

\* C3: containsProperty and containsObject return false and do not raise on
\* a path that does not resolve, wherever the path stops resolving.
C3_ContainsNeverRaises ==
    (/\ Called
     /\ last.op \in {"containsProperty", "containsObject"}
     /\ ~Resolves(Before.val, last.keys))
        => (last.err = "none" /\ last.ret = PBool(FALSE))

\* C4: a successful setProperty leaves a Property at the path and a
\* successful setObject leaves an Object there, whatever value was passed.
C4_SetKeepsCategory ==
    (Called /\ last.err = "none" /\ After.ok)
        => /\ last.op = "setProperty"
                => IsPropertyNode(NodeAt(After.val, last.keys))
           /\ last.op = "setObject"
                => IsObjectNode(NodeAt(After.val, last.keys))

C6_AddExistingKeyFails ==
    Called =>
        /\ (/\ last.op \in {"addProperty", "addObject"}
            /\ HasKey(NodeAt(Before.val, last.keys), last.newKey))
                => (last.err = "JSONKeyAlreadyExists" /\ file = pre)
        /\ (last.op = "addProperty" /\ last.err = "none")
                => \A v \in Values :
                      LET again == addProperty(exists, file, last.keys,
                                               last.newKey, v)
                      IN  /\ again.err = "JSONKeyAlreadyExists"
                          /\ again.file = file

C6_Witness ==
    /\ Called
    /\ last.op = "addProperty"
    /\ last.value = PSet
    /\ Len(last.keys) = 1
    /\ last.err = "JSONKeyAlreadyExists"
    /\ file = pre

\* C7: after a successful addProperty of a Property value under a new key,
\* getProperty of the path extended by the key returns the value, and the
\* document without that key is the document as it was.
C7_AddThenGet ==
    (Called /\ last.op = "addProperty" /\ last.err = "none")
        => LET got == getProperty(exists, file,
                                  Append(last.keys, last.newKey))
           IN  /\ got.err = "none"
               /\ got.ret = last.value
               /\ After.ok
               /\ Without(After.val, last.keys, last.newKey) = Before.val

C7_Witness ==
    /\ Called
    /\ last.op = "addProperty"
    /\ last.err = "none"
    /\ Len(last.keys) = 2
    /\ last.value.kind = "list"

\* C8: a KeyNotFound raised while a path is resolved carries the key that
\* was not found, the keys of the Object in which it was looked up, and the
\* prefix of the path consumed before it.
C8_KeyNotFoundCarriesContext ==
    (Called /\ last.err = "JSONKeyNotFoundError")
        => LET i == Consumed(Before.val, last.keys, 0)
               found == SubSeq(last.keys, 1, i)
           IN  /\ last.wrongKey = last.keys[i + 1]
               /\ last.allKeys = NodeAt(Before.val, found).keys
               /\ last.foundKeys = found

\* C9: indentJSONFile on a well-formed file keeps the value tree (every
\* node's category, the key/value pairs and their order), and a second
\* indentJSONFile leaves the text the first one wrote.
C9_IndentPreservesTree ==
    (Called /\ last.op = "indentJSONFile")
        => /\ last.err = "none"
           /\ After.ok
           /\ After.val = Before.val
           /\ indentJSONFile(exists, file).err = "none"
           /\ indentJSONFile(exists, file).file = file

C9_Witness ==
    /\ Called
    /\ last.op = "indentJSONFile"
    /\ last.err = "none"
    /\ file # pre
    /\ Len(Before.val.keys) = 2

\* C10: whatever a call does to a well-formed file, the file is a
\* well-formed document afterwards, and a call that fails leaves the text
\* it found.
C10_StoreIsAtomic ==
    Called => /\ After.ok
              /\ last.err # "none" => file = pre

====
